---- MODULE Spec2Model ----
(***************************************************************************)
(* Model of the nRF52840 ESB -> USB HID receiver (src/src/main.c).         *)
(*                                                                         *)
(* Two callback contexts share the flag `configured`:                      *)
(*   - usb_status_cb, run by the USB stack on every status event;          *)
(*   - receiver_esb_event_handler, run by the ESB driver on every radio    *)
(*     event.                                                              *)
(* The radio handler is split at its accesses to shared state: its first   *)
(* step runs from entry up to and including the read of `configured`       *)
(* (line 97) and the memcpy (line 100); each hid_int_ep_write is a step of *)
(* its own.  USB status events may be delivered between those steps.       *)
(***************************************************************************)
EXTENDS Integers, Sequences, FiniteSets

\* ------------------------------------------------------------- bounds
\* Payload lengths 0..MaxLen are explored, plus the hardware maximum.
MaxLen == 9
\* Payload bytes 0 and 1 (the two the handler reads one by one) range over
\* 0..MaxByte; all other payload bytes are 0.
MaxByte == 1
\* The count of consecutive CONFIGURED events saturates here.
MaxStreak == 3
\* The count of payloads forwarded while the link is down saturates here.
MaxLate == 2

\* ---------------------------------------------------------- constants
\* Size of esb_payload.data, and the largest payload length the radio gives.
ESB_MAX_PAYLOAD_LENGTH == 32
\* Length of a HID keyboard report (hid_report[8], memcpy(..., 8)).
HID_REPORT_LEN == 8
\* Length of a connectivity/test payload.
TEST_PAYLOAD_LEN == 2

VARIABLES
    mainpc,             \* position of main()
    hid_dev,            \* static const struct device *hid_dev
    usb_enabled,        \* usb_dc_set_status_callback + usb_enable done
    configured,         \* static volatile bool configured
    usb_configured_sem, \* K_SEM_DEFINE(usb_configured_sem, 0, 1): its count
    rx_payload,         \* static struct esb_payload rx_payload
    hpc,                \* position of receiver_esb_event_handler
    hid_report,         \* the handler's local hid_report[8]
    out,                \* hid_int_ep_write calls of the current/last radio event,
                        \* each with its data, its result and the value of
                        \* `configured` when it was made
    log,                \* log records of the current/last radio event
    ev,                 \* the current/last radio event, and what it saw on entry
    last_status,        \* history: the last status code usb_status_cb handled
    cfg_streak,         \* history: consecutive CONFIGURED events just handled
    link_down,          \* history: a DISCONNECTED/RESET was handled and no
                        \*          CONFIGURED since
    late_fwd,           \* history: payloads with a write made while link_down,
                        \*          since the last CONFIGURED
    late_counted        \* history: the payload in hand is one of them

vars == <<mainpc, hid_dev, usb_enabled, configured, usb_configured_sem,
          rx_payload, hpc, hid_report, out, log, ev,
          last_status, cfg_streak, link_down, late_fwd, late_counted>>

mainVars == <<mainpc, hid_dev, usb_enabled>>
usbVars  == <<configured, usb_configured_sem, last_status, cfg_streak, link_down>>
esbVars  == <<rx_payload, hpc, hid_report, out, log, ev>>
lateVars == <<late_fwd, late_counted>>

\* ------------------------------------------------------------ values
NULL == "NULL"
HID_0 == "HID_0"

Byte == 0..MaxByte

Min(a, b) == IF a < b THEN a ELSE b

\* enum usb_dc_status_code: the five codes the callback names, and two of
\* the codes it leaves to `default`.
LinkStatus == {"USB_DC_CONFIGURED", "USB_DC_DISCONNECTED", "USB_DC_RESET"}
QuietStatus == {"USB_DC_SUSPEND", "USB_DC_RESUME"}
OtherStatus == {"USB_DC_CONNECTED", "USB_DC_UNKNOWN"}
StatusCodes == LinkStatus \cup QuietStatus \cup OtherStatus

\* enum esb_evt_id
EsbEvents == {"ESB_EVENT_TX_SUCCESS", "ESB_EVENT_TX_FAILED", "ESB_EVENT_RX_RECEIVED"}

\* Results of hid_int_ep_write (0 or a negative errno); the handler drops them.
WriteResults == {"ok", "err"}

Lengths == (0..MaxLen) \cup {ESB_MAX_PAYLOAD_LENGTH}

\* The payloads the radio may deliver: `length` bytes, the first two free.
PayloadData(len) ==
    { [i \in 1..len |-> IF i = 1 THEN b0 ELSE IF i = 2 THEN b1 ELSE 0] :
        b0 \in Byte, b1 \in Byte }

Payloads == UNION { { [length |-> len, data |-> d] : d \in PayloadData(len) } :
                    len \in Lengths }

ZeroData(n) == [i \in 1..n |-> 0]

LogRec(lvl, msg, args) == [lvl |-> lvl, msg |-> msg, args |-> args]

NoEvent == [evt_id |-> "none", rd |-> "none", cfg |-> TRUE, down |-> FALSE,
            susp |-> FALSE]

\* Variant of Init with `configured` starting false.
InitUnconfigured ==
    /\ mainpc = "get_binding"
    /\ hid_dev = NULL
    /\ usb_enabled = FALSE
    /\ configured = FALSE
    /\ usb_configured_sem = 0
    /\ rx_payload = [length |-> 0, data |-> ZeroData(ESB_MAX_PAYLOAD_LENGTH)]
    /\ hpc = "idle"
    /\ hid_report = ZeroData(HID_REPORT_LEN)
    /\ out = <<>>
    /\ log = <<>>
    /\ ev = NoEvent
    /\ last_status = "none"
    /\ cfg_streak = 0
    /\ link_down = FALSE
    /\ late_fwd = 0
    /\ late_counted = FALSE

\* -------------------------------------------------------------- Init
Init ==
    /\ mainpc = "get_binding"
    /\ hid_dev = NULL
    /\ usb_enabled = FALSE
    /\ configured = TRUE
    /\ usb_configured_sem = 0
    /\ rx_payload = [length |-> 0, data |-> ZeroData(ESB_MAX_PAYLOAD_LENGTH)]
    /\ hpc = "idle"
    /\ hid_report = ZeroData(HID_REPORT_LEN)
    /\ out = <<>>
    /\ log = <<>>
    /\ ev = NoEvent
    /\ last_status = "none"
    /\ cfg_streak = 0
    /\ link_down = FALSE
    /\ late_fwd = 0
    /\ late_counted = FALSE

\* -------------------------------------------------------------- main()
\* Variant of MainGetBinding without the test of the handle.
MainGetBindingUnchecked ==
    /\ mainpc = "get_binding"
    /\ \E d \in {NULL, HID_0} :
        /\ hid_dev' = d
        /\ mainpc' = "check_ready"
    /\ UNCHANGED <<usb_enabled, usbVars, esbVars, lateVars>>

\* hid_dev = device_get_binding("HID_0"); if (!hid_dev) return 0;
MainGetBinding ==
    /\ mainpc = "get_binding"
    /\ \E d \in {NULL, HID_0} :
        /\ hid_dev' = d
        /\ mainpc' = IF d = NULL THEN "exited" ELSE "check_ready"
    /\ UNCHANGED <<usb_enabled, usbVars, esbVars, lateVars>>

\* if (!device_is_ready(hid_dev)) return 0;
MainCheckReady ==
    /\ mainpc = "check_ready"
    /\ \E ready \in BOOLEAN :
        mainpc' = IF ready THEN "hid_init" ELSE "exited"
    /\ UNCHANGED <<hid_dev, usb_enabled, usbVars, esbVars, lateVars>>

\* usb_hid_register_device(...); err = usb_hid_init(hid_dev); if (err) return 0;
MainHidInit ==
    /\ mainpc = "hid_init"
    /\ \E err \in BOOLEAN :
        mainpc' = IF err THEN "exited" ELSE "usb_enable"
    /\ UNCHANGED <<hid_dev, usb_enabled, usbVars, esbVars, lateVars>>

\* usb_dc_set_status_callback(&usb_status_cb); err = usb_enable(NULL);
\* if (err) return 0;   From here on the USB stack delivers status events.
MainUsbEnable ==
    /\ mainpc = "usb_enable"
    /\ \E err \in BOOLEAN :
        /\ usb_enabled' = ~err
        /\ mainpc' = IF err THEN "exited" ELSE "esb_init"
    /\ UNCHANGED <<hid_dev, usbVars, esbVars, lateVars>>

\* esb_init, esb_set_base_address_0, esb_set_prefixes, esb_start_rx: each
\* failure returns from main; after esb_start_rx the radio delivers events.
MainEsbSetup ==
    /\ mainpc = "esb_init"
    /\ \E err \in BOOLEAN :
        mainpc' = IF err THEN "exited" ELSE "running"
    /\ UNCHANGED <<hid_dev, usb_enabled, usbVars, esbVars, lateVars>>

\* ----------------------------------------------------- usb_status_cb
\* Variants of StatusReadiness with one case changed: RESET without its
\* assignment, RESUME setting the flag, CONFIGURED toggling it.
StatusReadinessResetKeeps(status, c) ==
    CASE status = "USB_DC_CONFIGURED"   -> TRUE
      [] status = "USB_DC_DISCONNECTED" -> FALSE
      [] OTHER                          -> c

StatusReadinessResumeSets(status, c) ==
    CASE status \in {"USB_DC_CONFIGURED", "USB_DC_RESUME"}   -> TRUE
      [] status \in {"USB_DC_DISCONNECTED", "USB_DC_RESET"}  -> FALSE
      [] OTHER                                               -> c

StatusReadinessToggles(status, c) ==
    CASE status = "USB_DC_CONFIGURED"                        -> ~c
      [] status \in {"USB_DC_DISCONNECTED", "USB_DC_RESET"}  -> FALSE
      [] OTHER                                               -> c

\* Variant of StatusReadiness in which SUSPEND clears the flag.
StatusReadinessSuspendClears(status, c) ==
    CASE status = "USB_DC_CONFIGURED"                        -> TRUE
      [] status \in {"USB_DC_DISCONNECTED", "USB_DC_RESET",
                     "USB_DC_SUSPEND"}                       -> FALSE
      [] OTHER                                               -> c

\* The value usb_status_cb leaves in `configured`, given the status code and
\* the value c it finds there.
StatusReadiness(status, c) ==
    CASE status = "USB_DC_CONFIGURED"   -> TRUE
      [] status = "USB_DC_DISCONNECTED" -> FALSE
      [] status = "USB_DC_RESET"        -> FALSE
      [] status = "USB_DC_SUSPEND"      -> c
      [] status = "USB_DC_RESUME"       -> c
      [] OTHER                          -> c

\* Variant of StatusSem that gives the semaphore on every status code.
StatusSemAlways(status, count) == Min(count + 1, 1)

\* k_sem_give on a semaphore of limit 1, done in the CONFIGURED case only.
StatusSem(status, count) ==
    IF status = "USB_DC_CONFIGURED" THEN Min(count + 1, 1) ELSE count

usb_status_cb(status) ==
    /\ usb_enabled
    /\ configured' = StatusReadiness(status, configured)
    /\ usb_configured_sem' = StatusSem(status, usb_configured_sem)
    /\ last_status' = status
    /\ cfg_streak' = IF status = "USB_DC_CONFIGURED"
                     THEN Min(cfg_streak + 1, MaxStreak) ELSE 0
    /\ link_down' = CASE status = "USB_DC_CONFIGURED" -> FALSE
                      [] status \in {"USB_DC_DISCONNECTED", "USB_DC_RESET"} -> TRUE
                      [] OTHER -> link_down
    /\ late_fwd' = IF status = "USB_DC_CONFIGURED" THEN 0 ELSE late_fwd
    /\ late_counted' = IF status = "USB_DC_CONFIGURED" THEN FALSE ELSE late_counted
    /\ UNCHANGED <<mainVars, esbVars>>

UsbStatus == \E status \in StatusCodes : usb_status_cb(status)

\* ---------------------------------------- receiver_esb_event_handler
\* esb_read_rx_payload(&rx_payload) == 0: the driver copies the pending
\* payload's length and its `length` data bytes into rx_payload; the bytes
\* of rx_payload.data behind them keep what they held.
EsbRead(old, p) ==
    [length |-> p.length,
     data   |-> [i \in 1..ESB_MAX_PAYLOAD_LENGTH |->
                    IF i <= p.length THEN p.data[i] ELSE old.data[i]]]

\* Variant of Gate that tests the device handle alone.
GateWithoutFlag == hid_dev /= NULL

\* The gate of line 97: hid_dev && configured.
Gate == hid_dev /= NULL /\ configured

\* Variant of RxBranch that tests `length >= 8`.
RxBranchAtLeast(length, gate) ==
    IF length >= HID_REPORT_LEN
    THEN IF gate THEN "forward"
         ELSE IF length = TEST_PAYLOAD_LEN THEN "test"
         ELSE "unexpected"
    ELSE "read_failed"

\* The branch the if/else chain of lines 95..111 takes for a payload that was
\* read, as the braces of the source nest it: `else if (length == 2)` and the
\* `else` after it belong to `if (hid_dev && configured)`, and the last
\* `else` belongs to `if (rx_payload.length == 8)`.
RxBranch(length, gate) ==
    IF length = HID_REPORT_LEN
    THEN IF gate THEN "forward"
         ELSE IF length = TEST_PAYLOAD_LEN THEN "test"
         ELSE "unexpected"
    ELSE "read_failed"

\* Variant of HidReport that copies from rx_payload.data + 1.
HidReportFromSecond(data) == [i \in 1..HID_REPORT_LEN |-> data[i + 1]]

\* memcpy(hid_report, rx_payload.data, 8) into uint8_t hid_report[8] = {0}.
HidReport(data) == [i \in 1..HID_REPORT_LEN |-> data[i]]

\* uint8_t release_report[8] = {0}.
ReleaseReport == ZeroData(HID_REPORT_LEN)

\* The log records of lines 92..94, written for every payload that was read.
RxHeadLog(p) ==
    << LogRec("INF", "Received Payload", <<p.length>>),
       LogRec("INF", "Data", <<p.data[1], p.data[2]>>),
       LogRec("INF", "Raw Payload", SubSeq(p.data, 1, p.length)) >>

\* The log records of lines 96..110, by branch.
RxBranchLog(p, branch) ==
    CASE branch = "forward" ->
            << LogRec("INF", "Processing HID report (8 bytes)", <<>>) >>
      [] branch = "test" ->
            << LogRec("INF", "Processing HID report (8 bytes)", <<>>),
               LogRec("INF", "Received test payload (2 bytes)",
                      <<p.data[1], p.data[2]>>) >>
      [] branch = "unexpected" ->
            << LogRec("INF", "Processing HID report (8 bytes)", <<>>),
               LogRec("WRN", "Unexpected payload length", <<p.length>>),
               LogRec("INF", "Unexpected Payload", SubSeq(p.data, 1, p.length)) >>
      [] branch = "read_failed" ->
            << LogRec("ERR", "Failed to read RX payload", <<>>) >>

\* The log record of a transmit event (lines 84..89).
TxLog(e) ==
    IF e = "ESB_EVENT_TX_SUCCESS"
    THEN << LogRec("INF", "TX success (unexpected in PRX mode)", <<>>) >>
    ELSE << LogRec("ERR", "TX failed (unexpected in PRX mode)", <<>>) >>

\* What the handler finds on entry: the flag, whether the link is down, and,
\* for a payload that is read, whether the status event last handled was
\* 'suspended'.
Entry(e, rd) ==
    [evt_id |-> e, rd |-> rd, cfg |-> configured, down |-> link_down,
     susp |-> (rd = "ok" /\ last_status = "USB_DC_SUSPEND")]

\* case ESB_EVENT_TX_SUCCESS / ESB_EVENT_TX_FAILED: log and return.
EsbTxEvent(e) ==
    /\ mainpc = "running"
    /\ hpc = "idle"
    /\ ev' = Entry(e, "none")
    /\ log' = TxLog(e)
    /\ out' = <<>>
    /\ UNCHANGED <<rx_payload, hpc, hid_report, mainVars, usbVars, lateVars>>

\* Variant of EsbRxReadFails that ignores the result of the read and goes on
\* with what rx_payload holds from an earlier event.
EsbRxReadFailsUsesStale ==
    LET branch == RxBranch(rx_payload.length, hid_dev /= NULL /\ configured)
    IN  /\ mainpc = "running"
        /\ hpc = "idle"
        /\ ev' = Entry("ESB_EVENT_RX_RECEIVED", "fail")
        /\ log' = RxHeadLog(rx_payload) \o RxBranchLog(rx_payload, branch)
        /\ out' = <<>>
        /\ IF branch = "forward"
           THEN /\ hid_report' = [i \in 1..HID_REPORT_LEN |-> rx_payload.data[i]]
                /\ hpc' = "write1"
           ELSE /\ hid_report' = hid_report
                /\ hpc' = "idle"
        /\ UNCHANGED <<rx_payload, mainVars, usbVars, lateVars>>

\* case ESB_EVENT_RX_RECEIVED with esb_read_rx_payload failing: the `if` of
\* line 91 has no else, so the handler leaves the switch.
EsbRxReadFails ==
    /\ mainpc = "running"
    /\ hpc = "idle"
    /\ ev' = Entry("ESB_EVENT_RX_RECEIVED", "fail")
    /\ log' = <<>>
    /\ out' = <<>>
    /\ UNCHANGED <<rx_payload, hpc, hid_report, mainVars, usbVars, lateVars>>

\* case ESB_EVENT_RX_RECEIVED with payload p read: lines 91..100 and 103..112.
EsbRxRead(p) ==
    LET rx == EsbRead(rx_payload, p)
        branch == RxBranch(rx.length, Gate)
    IN  /\ mainpc = "running"
        /\ hpc = "idle"
        /\ ev' = Entry("ESB_EVENT_RX_RECEIVED", "ok")
        /\ rx_payload' = rx
        /\ log' = RxHeadLog(rx) \o RxBranchLog(rx, branch)
        /\ out' = <<>>
        /\ IF branch = "forward"
           THEN /\ hid_report' = HidReport(rx.data)
                /\ hpc' = "write1"
           ELSE /\ hid_report' = hid_report
                /\ hpc' = "idle"
        /\ UNCHANGED <<mainVars, usbVars, lateVars>>

\* Variant of WriteBuffer with the two writes in the other order.
WriteBufferReleaseFirst(pc) == IF pc = "write1" THEN ZeroData(HID_REPORT_LEN) ELSE hid_report

\* The buffer each of the two writes sends.
WriteBuffer(pc) == IF pc = "write1" THEN hid_report ELSE ReleaseReport

\* Variant of AfterWrite that tests `configured` again before the second write.
AfterWriteRechecks(pc) == IF pc = "write1" /\ configured THEN "write2" ELSE "idle"

\* Where the handler goes after a write.
AfterWrite(pc) == IF pc = "write1" THEN "write2" ELSE "idle"

\* Variant of HidWrite that clears `configured` when the write fails.
HidWriteClearsOnError ==
    /\ hpc \in {"write1", "write2"}
    /\ \E res \in WriteResults :
        /\ out' = Append(out, [data |-> WriteBuffer(hpc), res |-> res,
                               cfg |-> configured])
        /\ configured' = IF res = "err" THEN FALSE ELSE configured
    /\ hpc' = AfterWrite(hpc)
    /\ hid_report' = IF hpc' = "idle" THEN ZeroData(HID_REPORT_LEN) ELSE hid_report
    /\ late_fwd' = IF link_down /\ ~late_counted
                   THEN Min(late_fwd + 1, MaxLate) ELSE late_fwd
    /\ late_counted' = (hpc' /= "idle" /\ (link_down \/ late_counted))
    /\ UNCHANGED <<rx_payload, log, ev, mainVars, usb_configured_sem,
                   last_status, cfg_streak, link_down>>

\* Variant of HidWrite that waits for the link to be configured.
HidWriteWaitsForLink ==
    /\ configured
    /\ hpc \in {"write1", "write2"}
    /\ \E res \in WriteResults :
        out' = Append(out, [data |-> WriteBuffer(hpc), res |-> res,
                            cfg |-> configured])
    /\ hpc' = AfterWrite(hpc)
    /\ hid_report' = IF hpc' = "idle" THEN ZeroData(HID_REPORT_LEN) ELSE hid_report
    /\ late_fwd' = IF link_down /\ ~late_counted
                   THEN Min(late_fwd + 1, MaxLate) ELSE late_fwd
    /\ late_counted' = (hpc' /= "idle" /\ (link_down \/ late_counted))
    /\ UNCHANGED <<rx_payload, log, ev, mainVars, usbVars>>

\* Variant of HidWrite that repeats a write until it succeeds.
HidWriteRetries ==
    /\ hpc \in {"write1", "write2"}
    /\ \E res \in WriteResults :
        /\ out' = IF res = "err" /\ out /= <<>> /\ out[Len(out)].res = "err"
                  THEN out
                  ELSE Append(out, [data |-> WriteBuffer(hpc), res |-> res,
                                    cfg |-> configured])
        /\ hpc' = IF res = "err" THEN hpc ELSE AfterWrite(hpc)
    /\ hid_report' = IF hpc' = "idle" THEN ZeroData(HID_REPORT_LEN) ELSE hid_report
    /\ late_fwd' = IF link_down /\ ~late_counted
                   THEN Min(late_fwd + 1, MaxLate) ELSE late_fwd
    /\ late_counted' = (hpc' /= "idle" /\ (link_down \/ late_counted))
    /\ UNCHANGED <<rx_payload, log, ev, mainVars, usbVars>>

\* hid_int_ep_write(hid_dev, hid_report, 8, NULL);            (line 101)
\* hid_int_ep_write(hid_dev, release_report, 8, NULL); break; (line 102)
\* The result of the call is dropped.
HidWrite ==
    /\ hpc \in {"write1", "write2"}
    /\ \E res \in WriteResults :
        out' = Append(out, [data |-> WriteBuffer(hpc), res |-> res,
                            cfg |-> configured])
    /\ hpc' = AfterWrite(hpc)
    /\ hid_report' = IF hpc' = "idle" THEN ZeroData(HID_REPORT_LEN) ELSE hid_report
    /\ late_fwd' = IF link_down /\ ~late_counted
                   THEN Min(late_fwd + 1, MaxLate) ELSE late_fwd
    /\ late_counted' = (hpc' /= "idle" /\ (link_down \/ late_counted))
    /\ UNCHANGED <<rx_payload, log, ev, mainVars, usbVars>>

EsbTx == \E e \in {"ESB_EVENT_TX_SUCCESS", "ESB_EVENT_TX_FAILED"} : EsbTxEvent(e)

EsbRx == \E p \in Payloads : EsbRxRead(p)

\* -------------------------------------------------------- specification
Next ==
    \/ MainGetBinding
    \/ MainCheckReady
    \/ MainHidInit
    \/ MainUsbEnable
    \/ MainEsbSetup
    \/ UsbStatus
    \/ EsbTx
    \/ EsbRxReadFails
    \/ EsbRx
    \/ HidWrite

Spec == Init /\ [][Next]_vars

\* The handler runs in the radio driver's callback context and is not
\* suspended there: once entered, each of its writes is made.
LiveSpec == Spec /\ WF_vars(HidWrite)

\* ---------------------------------------------------------- properties
\* The radio event in `ev` is a 'payload received' event whose read succeeded.
RxOk == ev.evt_id = "ESB_EVENT_RX_RECEIVED" /\ ev.rd = "ok"

\* The handler has returned.
Returned == hpc = "idle"

\* The first eight bytes of the payload last read, and eight zero bytes.
PayloadBytes == [i \in 1..8 |-> rx_payload.data[i]]
EightZeros == [i \in 1..8 |-> 0]

\* The log records of a level, and of a message, of the current/last event.
LogAt(lvl) == { i \in 1..Len(log) : log[i].lvl = lvl }
LogOf(msg) == { i \in 1..Len(log) : log[i].msg = msg }

\* C1: a payload of length 8 read while readiness is true makes the handler
\* write exactly two 8-byte reports, the payload's 8 bytes and then 8 zeros:
\* what has been written so far is a prefix of that pair, and once the handler
\* has returned it is the whole pair.
C1_ForwardsPayloadThenRelease ==
    (RxOk /\ rx_payload.length = 8 /\ ev.cfg) =>
        LET want == <<PayloadBytes, EightZeros>>
        IN  /\ Len(out) <= 2
            /\ \A i \in 1..Len(out) : out[i].data = want[i]
            /\ Returned => Len(out) = 2

C1_Witness ==
    /\ RxOk /\ rx_payload.length = 8 /\ ev.cfg /\ Returned
    /\ rx_payload.data[1] = 1
    /\ Len(out) = 2

\* C2: a payload of length 8 read while readiness is false makes the handler
\* write no report: it returns at once with nothing written.
C2_NotReadyDropsReport ==
    (RxOk /\ rx_payload.length = 8 /\ ~ev.cfg) => (Returned /\ out = <<>>)

C2_Witness ==
    RxOk /\ rx_payload.length = 8 /\ ~ev.cfg /\ rx_payload.data[1] = 1

\* C3: a payload of any length other than 8 makes the handler write no report,
\* whatever readiness is.
C3_OtherLengthsWriteNothing ==
    (RxOk /\ rx_payload.length /= 8) => (Returned /\ out = <<>>)

C3_Witness ==
    RxOk /\ rx_payload.length = 2 /\ ev.cfg /\ hid_dev /= NULL

\* C4: after a 'configured' event readiness is true, after a 'disconnected' or
\* a 'reset' event it is false, and a step that handles 'suspended', 'resumed'
\* or an unrecognized status code leaves readiness as it was.
C4_StatusSetsReadiness ==
    /\ [](last_status = "USB_DC_CONFIGURED" => configured)
    /\ [](last_status \in {"USB_DC_DISCONNECTED", "USB_DC_RESET"} => ~configured)
    /\ [][last_status' \in {"USB_DC_SUSPEND", "USB_DC_RESUME",
                            "USB_DC_CONNECTED", "USB_DC_UNKNOWN"}
            => configured' = configured]_vars

C4_Witness ==
    last_status = "USB_DC_SUSPEND" /\ ~configured /\ usb_configured_sem = 1

C6_ReadFailureLogsOneError ==
    (ev.evt_id = "ESB_EVENT_RX_RECEIVED" /\ ev.rd = "fail") =>
        /\ Returned /\ out = <<>>
        /\ LogOf("Received Payload") = {}
        /\ Cardinality(LogAt("ERR")) = 1

\* C7: a payload of length 2 is a test packet: nothing is written to USB and
\* its two bytes are logged as a test-packet diagnostic.
C7_LengthTwoIsDiagnostic ==
    (RxOk /\ rx_payload.length = 2) =>
        /\ Returned /\ out = <<>>
        /\ \E i \in LogOf("Received test payload (2 bytes)") :
              log[i].args = <<rx_payload.data[1], rx_payload.data[2]>>

\* C8: a payload whose length is neither 2 nor 8, and a payload of length 8
\* read while readiness is false, is logged as an unexpected length and not as
\* an error, and nothing is written to USB.
C8_OtherLengthsAreUnexpected ==
    (RxOk /\ (rx_payload.length \notin {2, 8} \/
              (rx_payload.length = 8 /\ ~ev.cfg))) =>
        /\ Returned /\ out = <<>>
        /\ \E i \in LogOf("Unexpected payload length") :
              log[i].lvl = "WRN" /\ log[i].args = <<rx_payload.length>>
        /\ LogAt("ERR") = {}

\* C9, as stated: every report written is 8 bytes long and its byte 1 is zero.
C9_ReservedByteAlwaysZero ==
    \A i \in 1..Len(out) : Len(out[i].data) = 8 /\ out[i].data[2] = 0

\* C9, amended: every report written is 8 bytes long; byte 1 of the release
\* frame is zero, and byte 1 of the live report is byte 1 of the payload.
C9_ReportLengthAndReservedByte ==
    \A i \in 1..Len(out) :
        /\ Len(out[i].data) = 8
        /\ out[i].data[2] = IF i = 1 THEN rx_payload.data[2] ELSE 0

C9_Witness ==
    Len(out) = 2 /\ out[1].data[2] = 1 /\ out[2].data[2] = 0

\* C10: while the events last handled are one or more consecutive 'configured'
\* events readiness is true, and one more 'configured' event leaves it as it
\* was.
C10_ConfiguredIsIdempotent ==
    /\ [](cfg_streak >= 1 => configured)
    /\ [][(cfg_streak >= 1 /\ cfg_streak' > cfg_streak)
            => configured' = configured]_vars

C10_Witness ==
    cfg_streak = MaxStreak /\ configured /\ last_status = "USB_DC_CONFIGURED"


\* A step that handles a USB status event and changes something: only
\* usb_status_cb writes the variables of usbVars.
UsbStep == usbVars' /= usbVars

\* C11, as stated: a step that handles a USB status event changes nothing of
\* the program's state but the readiness flag.
C11_StatusWritesOnlyReadiness ==
    [][UsbStep => UNCHANGED <<mainVars, rx_payload, hpc, hid_report, out, log,
                              usb_configured_sem>>]_vars

\* C11, amended: a step that handles a USB status event changes nothing of the
\* program's state but the readiness flag and, when the event is 'configured',
\* the count of usb_configured_sem, which it leaves at 1.
C11_StatusWritesReadinessAndSem ==
    [][UsbStep =>
        /\ UNCHANGED <<mainVars, rx_payload, hpc, hid_report, out, log>>
        /\ \/ usb_configured_sem' = usb_configured_sem
           \/ last_status' = "USB_DC_CONFIGURED" /\ usb_configured_sem' = 1]_vars

C11_Witness ==
    usb_configured_sem = 1 /\ last_status = "USB_DC_DISCONNECTED" /\ hpc = "write2"


\* C12: the two writes of a forwarded payload come as a pair, whatever status
\* events arrive in between: before the first write nothing is written, after
\* it the live report alone, and once the handler has returned either nothing
\* or the live report followed by the all-zero report.
C12_ReportsComeInPairs ==
    /\ hpc = "write1" => out = <<>>
    /\ hpc = "write2" => (Len(out) = 1 /\ out[1].data = PayloadBytes)
    /\ hpc = "idle" =>
        \/ out = <<>>
        \/ /\ Len(out) = 2
           /\ out[1].data = PayloadBytes
           /\ out[2].data = EightZeros

\* Readiness was true at the first write and false at the second one.
C12_Witness ==
    /\ Returned /\ Len(out) = 2
    /\ out[1].cfg /\ ~out[2].cfg
    /\ out[1].data[1] = 1
    /\ last_status \in {"USB_DC_DISCONNECTED", "USB_DC_RESET"}


\* C13: the race on readiness misroutes at most one payload per transition:
\* between two 'configured' events at most one payload has a write made after
\* a 'disconnected' or 'reset' event was handled (the one whose read of
\* readiness came before that event), and an 8-byte payload that is dropped
\* was taken in hand while the link was down, so that none whose handling
\* starts after the 'configured' event is dropped.
C13_AtMostOneMisrouted ==
    /\ late_fwd <= 1
    /\ late_fwd = 1 => link_down
    /\ (late_counted \/ (Returned /\ Len(out) = 2 /\ ~out[2].cfg)) => ev.cfg
    /\ (RxOk /\ rx_payload.length = 8 /\ Returned /\ out = <<>>) => ev.down

\* A payload was forwarded after the link went down, and the next 8-byte
\* payload was dropped.
C13_Witness ==
    /\ late_fwd = 1 /\ link_down
    /\ RxOk /\ rx_payload.length = 8 /\ Returned /\ out = <<>> /\ ev.down


\* C14: as long as no USB status event has been handled readiness is true, and
\* an 8-byte payload read in that time is forwarded: the handler goes on to
\* write the live report and then the release frame.
C14_ForwardsBeforeAnyStatusEvent ==
    last_status = "none" =>
        /\ configured
        /\ (RxOk /\ rx_payload.length = 8) =>
              /\ hpc = "write1" => out = <<>>
              /\ hpc = "write2" => Len(out) = 1
              /\ Returned => /\ Len(out) = 2
                             /\ out[1].data = PayloadBytes
                             /\ out[2].data = EightZeros

C14_Witness ==
    /\ last_status = "none" /\ usb_configured_sem = 0
    /\ RxOk /\ rx_payload.length = 8 /\ Returned
    /\ Len(out) = 2 /\ out[1].data[2] = 1


\* C15: suspension does not gate forwarding: an 8-byte payload taken in hand
\* while no 'disconnected' or 'reset' event has been handled since the last
\* 'configured' event (or since the start) is forwarded, whatever 'suspended'
\* and 'resumed' events were handled before it.
C15_SuspendDoesNotGate ==
    (RxOk /\ rx_payload.length = 8 /\ ~ev.down) =>
        /\ ev.cfg
        /\ hpc = "write1" => out = <<>>
        /\ hpc = "write2" => Len(out) = 1
        /\ Returned => /\ Len(out) = 2
                       /\ out[1].data = PayloadBytes
                       /\ out[2].data = EightZeros

\* An 8-byte payload taken in hand right after a 'suspended' event, forwarded.
C15_Witness ==
    /\ RxOk /\ rx_payload.length = 8 /\ ~ev.down /\ ev.susp
    /\ usb_configured_sem = 1
    /\ Returned /\ Len(out) = 2


\* A step of the radio event handler that changes something: only the handler
\* writes the variables of esbVars.
EsbStep == esbVars' /= esbVars

TxEvents == {"ESB_EVENT_TX_SUCCESS", "ESB_EVENT_TX_FAILED"}

\* C16: no step of the radio event handler changes readiness, and a transmit
\* event is log-only: it reads no payload, writes no report, logs one record
\* and returns.
C16_HandlerNeverWritesReadiness ==
    /\ [][EsbStep => configured' = configured]_vars
    /\ [][(EsbStep /\ ev'.evt_id \in TxEvents) => rx_payload' = rx_payload]_vars
    /\ [](ev.evt_id \in TxEvents =>
            (Returned /\ out = <<>> /\ ev.rd = "none" /\ Len(log) = 1))

C16_Witness ==
    /\ ev.evt_id = "ESB_EVENT_TX_FAILED" /\ ~ev.cfg /\ ~configured
    /\ rx_payload.length = 8 /\ LogAt("ERR") = {1}

\* A step that makes one more hid_int_ep_write call.
WriteStep == Len(out') = Len(out) + 1

\* C17: a failed write is neither propagated nor retried: whatever its result,
\* a write step moves the handler to the next write or to its return and
\* leaves readiness and the payload alone; after a failed first write the
\* release frame is written once and nothing more.
C17_WriteFailureIsIgnored ==
    /\ [][WriteStep =>
            /\ hpc' = (IF hpc = "write1" THEN "write2" ELSE "idle")
            /\ configured' = configured
            /\ rx_payload' = rx_payload
            /\ Len(out') = (IF hpc = "write1" THEN 1 ELSE 2)]_vars
    /\ []((out /= <<>> /\ out[1].res = "err") =>
            /\ Len(out) <= 2
            /\ out[1].data = PayloadBytes
            /\ Len(out) = 2 => out[2].data = EightZeros
            /\ Returned <=> Len(out) = 2)

C17_Witness ==
    /\ Returned /\ Len(out) = 2
    /\ out[1].res = "err" /\ out[2].res = "ok"
    /\ out[1].cfg /\ out[2].cfg /\ configured


\* C18: every call of the handler returns, whatever the event, the payload,
\* readiness and the results of the writes; reception, once started, is never
\* stopped; and whenever the handler is not running the next radio event can
\* be taken, as a status event can be at any time once USB is enabled.
C18_HandlersRunToCompletion ==
    /\ (hpc /= "idle") ~> (hpc = "idle")
    /\ [][mainpc = "running" => mainpc' = "running"]_vars
    /\ []((mainpc = "running" /\ hpc = "idle") =>
            (ENABLED EsbRx /\ ENABLED EsbTx /\ ENABLED EsbRxReadFails))
    /\ [](usb_enabled => ENABLED UsbStatus)

\* Both writes failed with the link down, and the handler has returned.
C18_Witness ==
    /\ Returned /\ Len(out) = 2
    /\ out[1].res = "err" /\ out[2].res = "err"
    /\ ~out[1].cfg /\ ~out[2].cfg


\* C19: a 'payload received' event makes one read; on a failed read nothing
\* that rx_payload holds from an earlier event is written; on a successful one
\* at most one pair is written, and only for a payload of length 8, whose 8
\* bytes the live report carries, with readiness as read on entry.
C19_OneReadOnePairPerEvent ==
    /\ Len(out) <= 2
    /\ ev.evt_id = "ESB_EVENT_RX_RECEIVED" => ev.rd \in {"ok", "fail"}
    /\ ev.rd /= "ok" => (Returned /\ out = <<>>)
    /\ (RxOk /\ (out /= <<>> \/ ~Returned)) =>
          /\ rx_payload.length = 8 /\ ev.cfg
          /\ ~Returned => hid_report = PayloadBytes
          /\ \A i \in 1..Len(out) :
                out[i].data = IF i = 1 THEN PayloadBytes ELSE EightZeros
    /\ Returned => hid_report = EightZeros

\* The read fails while rx_payload still holds an 8-byte payload and readiness
\* is true: nothing is written.
C19_Witness ==
    /\ ev.evt_id = "ESB_EVENT_RX_RECEIVED" /\ ev.rd = "fail" /\ ev.cfg
    /\ rx_payload.length = 8 /\ rx_payload.data[1] = 1
    /\ Returned /\ out = <<>>

\* C20: whenever reception has been started, and so whenever the handler runs
\* or has run, hid_dev is set, and the gate `hid_dev && configured` has the
\* value of `configured`.
C20_HandleSetWhenHandlerRuns ==
    (mainpc = "running" \/ hpc /= "idle" \/ ev.evt_id /= "none") =>
        /\ hid_dev /= NULL
        /\ Gate <=> configured

C20_Witness ==
    /\ mainpc = "running" /\ hid_dev = HID_0
    /\ hpc = "write1" /\ ~configured

====
